---- MODULE Spec2Model ----
(***************************************************************************)
(* A model of the brAIn front-end: the procedural layout generator of      *)
(* BrainVisualization (generateBrainNetwork) and the search flow of        *)
(* HomePage (searchWithOllama and the handlers around it).                 *)
(*                                                                         *)
(* Numbers.  JavaScript numbers are modelled in fixed point:               *)
(*   - lengths and coordinates in 1/Unit of a pixel,                       *)
(*   - ratios, strengths and radii in 1/Milli,                             *)
(*   - a value of Math.random() as k/RandomRange with k in                 *)
(*     0..RandomRange-1, so that it is always in [0,1).                    *)
(* A comparison of two square roots is made on the squares, which is what  *)
(* the comparison of the roots decides.                                    *)
(*                                                                         *)
(* Math.random().  The generator draws several thousand values in a run;   *)
(* the sequence of values is produced by a linear congruential generator   *)
(* whose seed is chosen nondeterministically in Init.                      *)
(***************************************************************************)
EXTENDS Integers, Sequences, FiniteSets, TLC

VARIABLES
    \* ---- BrainVisualization
    width,            \* prop width, in 1/Unit pixel
    height,           \* prop height, in 1/Unit pixel
    showLabels,       \* prop showLabels
    closureShowLabels, \* showLabels as the memoised generateBrainNetwork captured it
    propChanges,      \* the number of renders with changed props so far
    pc,               \* position in generateBrainNetwork
    i,                \* loop index of the running loop (0-based, as in the code)
    newNodes,         \* local newNodes
    newConnections,   \* local newConnections
    nodes,            \* React state nodes
    connections,      \* React state connections
    rng,              \* state of the random source behind Math.random()
    \* ---- HomePage
    mounted,          \* the effects of the first render have run
    REACT_APP_API_URL, \* the variable of the build environment; "" when it is not set
    searchParam,      \* searchParams.get('search'); "" when the parameter is absent
    windowWidth,      \* width of useWindowSize(), in pixels
    windowHeight,     \* height of useWindowSize(), in pixels
    searchQuery,      \* React state searchQuery
    showResults,      \* React state showResults
    isLoading,        \* React state isLoading
    knowledgeGraph,   \* React state knowledgeGraph
    csvStartups,      \* React state csvStartups
    zoomTarget,       \* React state zoomTarget
    showSectorDropdown, \* React state showSectorDropdown
    inflight,         \* the calls of searchWithOllama that have not returned
    console,          \* the messages written to the console so far
    backPressed,      \* history: handleBack has run and no search was submitted since
    \* ---- clicks on the nodes
    interactive,      \* prop interactive of BrainVisualization
    lastNodeClick,    \* the arguments of the last call of onNodeClick; << >> before it
    location          \* the location of the router

genVars == <<width, height, showLabels, closureShowLabels, propChanges, pc, i,
             newNodes, newConnections,
             nodes, connections, rng>>

homeVars == <<mounted, REACT_APP_API_URL, searchParam, windowWidth, windowHeight,
              searchQuery, showResults, isLoading, knowledgeGraph, csvStartups,
              zoomTarget, showSectorDropdown, inflight, console, backPressed>>

clickVars == <<interactive, lastNodeClick, location>>

vars == <<genVars, homeVars, clickVars>>

----------------------------------------------------------------------------
(* Fixed-point resolutions *)

Unit == 10
Milli == 1000
RandomRange == 1024

(* Bounds of the model *)

MaxSeed == 1

\* Bound: the number of renders of BrainVisualization with changed props
MaxPropChanges == 1

Seeds == 0..MaxSeed

\* Canvas sizes explored, <<width, height>> in pixels: below the lower clamp,
\* the end-to-end scenario 800x600, between the clamps, above the upper clamp, and
\* a long flat canvas on which the nodes between the regions lie far apart.
Sizes == { <<400, 300>>, <<800, 600>>, <<1000, 620>>, <<1000, 800>>, <<4000, 100>> }

----------------------------------------------------------------------------
(* Arithmetic helpers *)

Min(a, b) == IF a < b THEN a ELSE b
Max(a, b) == IF a > b THEN a ELSE b

RECURSIVE SqrtSearch(_, _, _)
SqrtSearch(n, lo, hi) ==
    IF lo >= hi THEN lo
    ELSE LET mid == (lo + hi + 1) \div 2
         IN  IF mid * mid <= n THEN SqrtSearch(n, mid, hi)
                               ELSE SqrtSearch(n, lo, mid - 1)

\* Math.sqrt, rounded down to the resolution of its argument's root
Sqrt(n) == SqrtSearch(n, 0, Min(n, 46340))

\* Math.cos and Math.sin of the 16 angles k * 2*PI/16, in 1/Milli
CosTable == << 1000, 924, 707, 383, 0, -383, -707, -924,
               -1000, -924, -707, -383, 0, 383, 707, 924 >>
SinTable == << 0, 383, 707, 924, 1000, 924, 707, 383,
               0, -383, -707, -924, -1000, -924, -707, -383 >>

\* angle = Math.random() * 2 * Math.PI, as an index into the tables
Angle(r) == ((r * 16) \div RandomRange) + 1

----------------------------------------------------------------------------
(* Math.random() *)

\* the next state of the random source
RandomStep(s) == (25173 * s + 13849) % 65536

\* the value drawn in state s, as k/RandomRange
RandomValue(s) == (s * RandomRange) \div 65536

SeedOf(n) == (n * 7919 + 12345) % 65536

----------------------------------------------------------------------------
(* BrainVisualization.generateBrainNetwork *)

MinNodeCount == 120
MaxNodeCount == 180
AreaPerNode == 4000

\* nodeCount without the upper clamp Math.min(180, ...)
nodeCountNoUpperClamp(w, h) ==
    Max(MinNodeCount, (w * h) \div (AreaPerNode * Unit * Unit))

\* const nodeCount = Math.min(180, Math.max(120, Math.floor((width * height) / 4000)))
nodeCount(w, h) ==
    Min(MaxNodeCount, Max(MinNodeCount, (w * h) \div (AreaPerNode * Unit * Unit)))

\* centralNodes with the flag ignored: always the first vocabulary of the code
centralNodesIgnoringFlag(flag) ==
    << [id |-> "mobility",          label |-> "Mobility",          type |-> "main"],
       [id |-> "funding",           label |-> "Funding",           type |-> "main"],
       [id |-> "electric-vehicles", label |-> "Electric Vehicles", type |-> "main"],
       [id |-> "startups",          label |-> "Startups",          type |-> "main"],
       [id |-> "europe",            label |-> "Europe",            type |-> "main"] >>

\* the two label vocabularies of the hub nodes
centralNodes(flag) ==
    IF flag
    THEN << [id |-> "mobility",          label |-> "Mobility",          type |-> "main"],
            [id |-> "funding",           label |-> "Funding",           type |-> "main"],
            [id |-> "electric-vehicles", label |-> "Electric Vehicles", type |-> "main"],
            [id |-> "startups",          label |-> "Startups",          type |-> "main"],
            [id |-> "europe",            label |-> "Europe",            type |-> "main"] >>
    ELSE << [id |-> "mobility",   label |-> "Mobility",   type |-> "main"],
            [id |-> "funding",    label |-> "Funding",    type |-> "main"],
            [id |-> "startups",   label |-> "Startups",   type |-> "main"],
            [id |-> "technology", label |-> "Technology", type |-> "main"],
            [id |-> "europe",     label |-> "Europe",     type |-> "main"] >>

\* the regions of the silhouette; size in 1/100
brainRegions(w, h) ==
    << [centerX |-> (w * 35) \div 100, centerY |-> (h * 30) \div 100, size |-> 22],
       [centerX |-> (w * 65) \div 100, centerY |-> (h * 30) \div 100, size |-> 22],
       [centerX |-> (w * 50) \div 100, centerY |-> (h * 25) \div 100, size |-> 18],
       [centerX |-> (w * 50) \div 100, centerY |-> (h * 40) \div 100, size |-> 16],
       [centerX |-> (w * 40) \div 100, centerY |-> (h * 20) \div 100, size |-> 14],
       [centerX |-> (w * 60) \div 100, centerY |-> (h * 20) \div 100, size |-> 14] >>

\* brainRegions[Math.floor(Math.random() * brainRegions.length)]
randomRegion(w, h, r) ==
    brainRegions(w, h)[((r * Len(brainRegions(w, h))) \div RandomRange) + 1]

\* Math.random() * Math.min(width, height) * region.size * factor, factor in 1/100
regionDistance(w, h, r, region, factor) ==
    (((r * Min(w, h)) \div RandomRange) * region.size * factor) \div (100 * 100)

\* the overall ellipse of the silhouette
centerX(w) == (w * 50) \div 100
centerY(h) == (h * 30) \div 100
maxRadiusX(w) == (w * 32) \div 100
maxRadiusY(h) == (h * 25) \div 100

normalizedX(w, x) == ((x - centerX(w)) * Milli) \div maxRadiusX(w)
normalizedY(h, y) == ((y - centerY(h)) * Milli) \div maxRadiusY(h)

\* normalizedX * normalizedX + normalizedY * normalizedY, in 1/Milli^2
normSquared(w, h, x, y) ==
    normalizedX(w, x) * normalizedX(w, x) + normalizedY(h, y) * normalizedY(h, y)

\* ellipseClamp with the test of distanceFromCenter left out: the position is kept
ellipseClampMissing(w, h, x, y) == [x |-> x, y |-> y]

\* the position after "if (distanceFromCenter > 1) { ... }"
ellipseClamp(w, h, x, y) ==
    LET nX == normalizedX(w, x)
        nY == normalizedY(h, y)
        distanceFromCenter == Sqrt(normSquared(w, h, x, y))
    IN  IF normSquared(w, h, x, y) > Milli * Milli
        THEN [x |-> centerX(w) + (nX * maxRadiusX(w) * 95) \div (distanceFromCenter * 100),
              y |-> centerY(h) + (nY * maxRadiusY(h) * 95) \div (distanceFromCenter * 100)]
        ELSE [x |-> x, y |-> y]

\* nodeId with the index taken modulo 100
nodeIdWrapping(n) == "node-" \o ToString(n % 100)

\* `node-${i}`
nodeId(n) == "node-" \o ToString(n)

\* centralNodes.forEach((node, i) => { ... newNodes.push({...node, ...}) })
centralNode(w, h, flag, n, s) ==
    LET s1 == RandomStep(s)
        s2 == RandomStep(s1)
        s3 == RandomStep(s2)
        region == brainRegions(w, h)[(n % Len(brainRegions(w, h))) + 1]
        angle == Angle(RandomValue(s1))
        distance == regionDistance(w, h, RandomValue(s2), region, 30)
        node == centralNodes(flag)[n + 1]
    IN  [node |-> [id |-> node.id, label |-> node.label, type |-> node.type,
                   x |-> region.centerX + (CosTable[angle] * distance) \div Milli,
                   y |-> region.centerY + (SinTable[angle] * distance) \div Milli,
                   radius |-> 12 * Milli + (RandomValue(s3) * 3 * Milli) \div RandomRange,
                   connections |-> << >>],
         rng |-> s3]

\* the position drawn in the body of "for (let i = centralNodes.length; ...)",
\* before the clamp
drawPosition(w, h, s) ==
    LET s1 == RandomStep(s)
        s2 == RandomStep(s1)
        s3 == RandomStep(s2)
        s4 == RandomStep(s3)
        s5 == RandomStep(s4)
        s6 == RandomStep(s5)
    IN  IF RandomValue(s1) * 10 > 3 * RandomRange
        THEN \* dense clustering in brain regions
             LET region == randomRegion(w, h, RandomValue(s2))
                 angle == Angle(RandomValue(s3))
                 distance == regionDistance(w, h, RandomValue(s4), region, 80)
             IN  [x |-> region.centerX + (CosTable[angle] * distance) \div Milli,
                  y |-> region.centerY + (SinTable[angle] * distance) \div Milli,
                  rng |-> s4]
        ELSE \* connecting tissue between regions
             LET regionA == randomRegion(w, h, RandomValue(s2))
                 regionB == randomRegion(w, h, RandomValue(s3))
                 t == RandomValue(s4)
                 noiseX == ((2 * RandomValue(s5) - RandomRange) * 40 * Unit) \div RandomRange
                 noiseY == ((2 * RandomValue(s6) - RandomRange) * 40 * Unit) \div RandomRange
             IN  [x |-> regionA.centerX
                          + (t * (regionB.centerX - regionA.centerX)) \div RandomRange + noiseX,
                  y |-> regionA.centerY
                          + (t * (regionB.centerY - regionA.centerY)) \div RandomRange + noiseY,
                  rng |-> s6]

\* one iteration of "for (let i = centralNodes.length; i < nodeCount; i++)"
otherNode(w, h, n, s) ==
    LET drawn == drawPosition(w, h, s)
        pos == ellipseClamp(w, h, drawn.x, drawn.y)
        s1 == RandomStep(drawn.rng)
        s2 == RandomStep(s1)
    IN  [node |-> [id |-> nodeId(n),
                   x |-> pos.x,
                   y |-> pos.y,
                   radius |-> (RandomValue(s1) * 2 * Milli) \div RandomRange + 800,
                   type |-> IF RandomValue(s2) * 100 > 85 * RandomRange
                            THEN "secondary" ELSE "connection",
                   connections |-> << >>],
         rng |-> s2]

\* Math.pow(node.x - target.x, 2) + Math.pow(node.y - target.y, 2): the square of
\* the distance of the code
distanceSquared(a, b) == (a.x - b.x) * (a.x - b.x) + (a.y - b.y) * (a.y - b.y)

\* const connectionCount = node.type === 'main' ? Math.floor(Math.random() * 8 + 6)
\*                                              : Math.floor(Math.random() * 5 + 3)
connectionCount(node, r) ==
    IF node.type = "main" THEN (r * 8) \div RandomRange + 6
                          ELSE (r * 5) \div RandomRange + 3

\* the order of .sort((a, b) => a.distance - b.distance), a stable sort: equal
\* distances keep the order of the indices
closer(a, b) ==
    \/ a.distance2 < b.distance2
    \/ a.distance2 = b.distance2 /\ a.index < b.index

\* the candidates in the order of their indices, without .sort(...)
nearbyNodesUnsorted(ns, n, count) ==
    LET others == [k \in 1..(Len(ns) - 1) |->
                      LET index == IF k <= n THEN k - 1 ELSE k
                      IN  [index |-> index,
                           distance2 |-> distanceSquared(ns[n + 1], ns[index + 1])]]
    IN  SubSeq(others, 1, Min(count * 2, Len(others)))

\* newNodes.map(...).filter(item => item.index !== i).sort(...).slice(0, count * 2);
\* index n and the indices of the result are 0-based
nearbyNodes(ns, n, count) ==
    LET others == [k \in 1..(Len(ns) - 1) |->
                      LET index == IF k <= n THEN k - 1 ELSE k
                      IN  [index |-> index,
                           distance2 |-> distanceSquared(ns[n + 1], ns[index + 1])]]
        sorted == SortSeq(others, closer)
    IN  SubSeq(sorted, 1, Min(count * 2, Len(sorted)))

\* const probability = node.type === 'main' ? 0.8 : (j < connectionCount * 0.6) ? 0.7 : 0.4,
\* in 1/100
probability(node, j, count) ==
    IF node.type = "main" THEN 80
    ELSE IF 10 * j < 6 * count THEN 70 ELSE 40

\* maxDistance with Math.max(width, height) in place of Math.min(width, height)
maxDistanceOfLongerSide(w, h, node) ==
    IF node.type = "main" THEN (Max(w, h) * 4) \div 10
                          ELSE (Max(w, h) * 2) \div 10

\* const maxDistance = node.type === 'main' ? Math.min(width, height) * 0.4
\*                                          : Math.min(width, height) * 0.2
maxDistance(w, h, node) ==
    IF node.type = "main" THEN (Min(w, h) * 4) \div 10
                          ELSE (Min(w, h) * 2) \div 10

\* strength without the floor Math.max(0.2, ...)
strengthNoFloor(distance, maxD) == Milli - (distance * Milli) \div maxD

\* Math.max(0.2, 1 - (targetInfo.distance / maxDistance)), in 1/Milli
strength(distance, maxD) == Max(200, Milli - (distance * Milli) \div maxD)

\* if (targetInfo.distance < maxDistance)
withinMaxDistance(distance2, maxD) == distance2 < maxD * maxD

\* connection with the target named after its index instead of by its id
connectionToIndex(node, targetInfo, ns, maxD) ==
    [source |-> node.id, target |-> nodeId(targetInfo.index),
     strength |-> strength(Sqrt(targetInfo.distance2), maxD)]

\* the record pushed on newConnections; targetInfo.node is ns[targetInfo.index + 1]
connection(node, targetInfo, ns, maxD) ==
    [source |-> node.id, target |-> ns[targetInfo.index + 1].id,
     strength |-> strength(Sqrt(targetInfo.distance2), maxD)]

\* "for (let j = 0; j < Math.min(connectionCount, nearbyNodes.length); j++)", from
\* j on, with the connections recorded so far
RECURSIVE connectLoop(_, _, _, _, _, _, _, _, _)
connectLoop(w, h, ns, n, count, nearby, j, s, recorded) ==
    IF j >= Min(count, Len(nearby))
    THEN [connections |-> recorded, rng |-> s]
    ELSE LET s1 == RandomStep(s)
             node == ns[n + 1]
             targetInfo == nearby[j + 1]
             maxD == maxDistance(w, h, node)
             pushed == /\ RandomValue(s1) * 100 < probability(node, j, count) * RandomRange
                       /\ withinMaxDistance(targetInfo.distance2, maxD)
         IN  connectLoop(w, h, ns, n, count, nearby, j + 1, s1,
                         IF pushed
                         THEN Append(recorded,
                                     connection(node, targetInfo, ns, maxD))
                         ELSE recorded)

\* the body of newNodes.forEach((node, i) => { ... }) of the connection pass
connectNode(w, h, ns, n, s) ==
    LET s1 == RandomStep(s)
        count == connectionCount(ns[n + 1], RandomValue(s1))
        nearby == nearbyNodes(ns, n, count)
    IN  connectLoop(w, h, ns, n, count, nearby, 0, s1, << >>)

----------------------------------------------------------------------------
(* JavaScript strings.  A TLA+ string stands for the JavaScript string of the    *)
(* same characters; "#" stands for an emoji of the sector names.                 *)

charAt(s, k) == SubSeq(s, k, k)

UpperCase == "ABCDEFGHIJKLMNOPQRSTUVWXYZ"
LowerCase == "abcdefghijklmnopqrstuvwxyz"
Digits == "0123456789"

isOneOf(c, chars) == \E k \in 1..Len(chars) : charAt(chars, k) = c

\* \s of a regular expression
isSpace(c) == isOneOf(c, " \n\t")

\* \w of a regular expression
isWord(c) == isOneOf(c, UpperCase) \/ isOneOf(c, LowerCase) \/ isOneOf(c, Digits) \/ c = "_"

lowerChar(c) ==
    IF isOneOf(c, UpperCase)
    THEN charAt(LowerCase, CHOOSE k \in 1..Len(UpperCase) : charAt(UpperCase, k) = c)
    ELSE c

\* String.prototype.toLowerCase
RECURSIVE toLowerCase(_)
toLowerCase(s) ==
    IF s = "" THEN "" ELSE lowerChar(charAt(s, 1)) \o toLowerCase(SubSeq(s, 2, Len(s)))

\* String.prototype.includes
includes(s, pattern) ==
    \E k \in 1..(Len(s) - Len(pattern) + 1) : SubSeq(s, k, k + Len(pattern) - 1) = pattern

RECURSIVE trimStart(_)
trimStart(s) ==
    IF s # "" /\ isSpace(charAt(s, 1)) THEN trimStart(SubSeq(s, 2, Len(s))) ELSE s

RECURSIVE trimEnd(_)
trimEnd(s) ==
    IF s # "" /\ isSpace(charAt(s, Len(s))) THEN trimEnd(SubSeq(s, 1, Len(s) - 1)) ELSE s

\* String.prototype.trim
trim(s) == trimEnd(trimStart(s))

\* .replace(/\*+/g, '')
RECURSIVE removeStars(_)
removeStars(s) ==
    IF s = "" THEN ""
    ELSE IF charAt(s, 1) = "*" THEN removeStars(SubSeq(s, 2, Len(s)))
    ELSE charAt(s, 1) \o removeStars(SubSeq(s, 2, Len(s)))

\* .replace(/\n+/g, ' '): every maximal run of newlines becomes one space
RECURSIVE collapseNewlines(_)
collapseNewlines(s) ==
    IF s = "" THEN ""
    ELSE IF charAt(s, 1) = "\n"
         THEN IF Len(s) >= 2 /\ charAt(s, 2) = "\n"
              THEN collapseNewlines(SubSeq(s, 2, Len(s)))
              ELSE " " \o collapseNewlines(SubSeq(s, 2, Len(s)))
    ELSE charAt(s, 1) \o collapseNewlines(SubSeq(s, 2, Len(s)))

\* .replace(/[^\w\s&]/g, '')
RECURSIVE removeSymbols(_)
removeSymbols(s) ==
    IF s = "" THEN ""
    ELSE LET c == charAt(s, 1)
         IN  IF isWord(c) \/ isSpace(c) \/ c = "&"
             THEN c \o removeSymbols(SubSeq(s, 2, Len(s)))
             ELSE removeSymbols(SubSeq(s, 2, Len(s)))

----------------------------------------------------------------------------
(* JavaScript values of a response body.  Every value is a record tagged with    *)
(* its type; a property that an object lacks is left out of the record.          *)

undefined == [t |-> "undefined"]
null == [t |-> "null"]
string(s) == [t |-> "string", s |-> s]
number(n) == [t |-> "number", n |-> n]
array(items) == [t |-> "array", items |-> items]

\* value.name of a value that is neither null nor undefined
property(value, name) ==
    IF value.t = "object" /\ name \in DOMAIN value THEN value[name] ELSE undefined

isNullish(value) == value.t \in {"undefined", "null"}

\* the value counts as true in a condition
truthy(value) ==
    CASE value.t \in {"undefined", "null"} -> FALSE
      [] value.t = "string" -> value.s # ""
      [] value.t = "number" -> value.n # 0
      [] OTHER -> TRUE

----------------------------------------------------------------------------
(* HomePage: the results panel *)

DefaultSummary == "Analisi AI generata basata sulla tua ricerca."

\* (knowledgeGraph.summary || "...").replace(/\*+/g, '').replace(/\n+/g, ' ').trim()
\* raises a TypeError when the summary is true in a condition and no string
summaryRaises(kg) ==
    truthy(property(kg, "summary")) /\ property(kg, "summary").t # "string"

summaryText(kg) ==
    LET summary == property(kg, "summary")
    IN  trim(collapseNewlines(removeStars(IF truthy(summary) THEN summary.s
                                                              ELSE DefaultSummary)))

\* knowledgeGraph.nodes?.map(node => node.label.replace(/\*+/g, '').trim()) raises a
\* TypeError when nodes is neither nullish nor an array, or some label is no string
conceptsRaise(kg) ==
    LET nodeList == property(kg, "nodes")
    IN  /\ ~isNullish(nodeList)
        /\ \/ nodeList.t # "array"
           \/ \E k \in 1..Len(nodeList.items) :
                 property(nodeList.items[k], "label").t # "string"

conceptTexts(kg) ==
    LET nodeList == property(kg, "nodes")
    IN  IF isNullish(nodeList) THEN << >>
        ELSE [k \in 1..Len(nodeList.items) |->
                 trim(removeStars(property(nodeList.items[k], "label").s))]

\* knowledgeGraph.insights?.map(insight => insight.replace(...).replace(...).trim())
insightsRaise(kg) ==
    LET insightList == property(kg, "insights")
    IN  /\ ~isNullish(insightList)
        /\ \/ insightList.t # "array"
           \/ \E k \in 1..Len(insightList.items) : insightList.items[k].t # "string"

insightTexts(kg) ==
    LET insightList == property(kg, "insights")
    IN  IF isNullish(insightList) THEN << >>
        ELSE [k \in 1..Len(insightList.items) |->
                 trim(collapseNewlines(removeStars(insightList.items[k].s)))]

\* what the render of "{showResults && knowledgeGraph && ( ... )}" yields for a
\* state: no panel, the panel, or an error raised while rendering
renderPanel(query, show, kg, startups) ==
    IF ~(show /\ truthy(kg)) THEN [t |-> "hidden"]
    ELSE IF summaryRaises(kg) \/ conceptsRaise(kg) \/ insightsRaise(kg)
    THEN [t |-> "error"]
    ELSE [t |-> "panel",
          header |-> query,
          summary |-> summaryText(kg),
          concepts |-> conceptTexts(kg),
          insights |-> insightTexts(kg),
          startups |-> SubSeq(startups, 1, Min(6, Len(startups)))]

\* the results panel of the current state
panel == renderPanel(searchQuery, showResults, knowledgeGraph, csvStartups)

\* the render of the current state yields the panel
panelShown ==
    /\ showResults /\ truthy(knowledgeGraph)
    /\ ~(summaryRaises(knowledgeGraph) \/ conceptsRaise(knowledgeGraph)
            \/ insightsRaise(knowledgeGraph))

\* the render of the current state raises an error
renderRaises ==
    /\ showResults /\ truthy(knowledgeGraph)
    /\ (summaryRaises(knowledgeGraph) \/ conceptsRaise(knowledgeGraph)
            \/ insightsRaise(knowledgeGraph))

\* an error raised while rendering is caught by no error boundary: React unmounts
\* the page, and no handler of it runs any more
pageMounted == mounted /\ ~renderRaises

----------------------------------------------------------------------------
(* HomePage: state and inputs *)

\* Bound: the number of calls of searchWithOllama that may be in flight at once
MaxInflight == 2

\* window sizes explored, <<width, height>> in pixels
WindowSizes == { <<1280, 720>> }

\* values of REACT_APP_API_URL explored; "" is the variable not set
ApiUrls == { "", "https://api.brain.example" }

\* values of the 'search' URL parameter explored; "" is the absent parameter
SearchParams == { "", "energia solare" }

\* texts typed into the search box
TypedQueries == { "", "  ", "fintech", "Solar ENERGY" }

\* const exampleSectors = [...] (one of the twelve)
exampleSectors == << "# Mobility & EV" >>

\* values of data.knowledge_graph explored
ScenarioGraph ==
    [t |-> "object",
     summary |-> string("x"),
     nodes |-> array(<< [t |-> "object", id |-> string("1"), label |-> string("a")] >>),
     insights |-> array(<< string("b") >>)]

MarkdownGraph ==
    [t |-> "object",
     summary |-> string("**Trend**\n\nin crescita "),
     nodes |-> array(<< [t |-> "object", id |-> string("1"), label |-> string("**AI** ")],
                        [t |-> "object", id |-> string("2"), label |-> string("EV")] >>),
     insights |-> array(<< string("* primo\nsecondo"), string("terzo") >>)]

EmptyGraph == [t |-> "object"]

BlankGraph ==
    [t |-> "object", summary |-> string(""), nodes |-> array(<< >>),
     insights |-> array(<< >>)]

UnlabelledGraph ==
    [t |-> "object",
     summary |-> string("x"),
     nodes |-> array(<< [t |-> "object", id |-> string("1")] >>),
     insights |-> array(<< string("b") >>)]

MalformedGraph ==
    [t |-> "object", summary |-> number(5), nodes |-> string("a"),
     insights |-> array(<< number(1) >>)]

KnowledgeGraphs ==
    { ScenarioGraph, MarkdownGraph, EmptyGraph, BlankGraph, UnlabelledGraph,
      MalformedGraph }

\* bodies of an OK response of /api/search: no JSON, an object without
\* knowledge_graph, an object with it
SearchBodies ==
    { [t |-> "invalid"], [t |-> "object"] }
        \cup { [t |-> "object", knowledge_graph |-> kg] : kg \in KnowledgeGraphs }

\* the bodies explored where searches overlap: well-formed graphs, told apart by
\* their content, and an object without knowledge_graph
OverlapBodies ==
    { [t |-> "object"] }
        \cup { [t |-> "object", knowledge_graph |-> kg] : kg \in { ScenarioGraph, MarkdownGraph } }

\* bodies of an OK response of /api/startups/sector/Energy
EnergyStartups == << "A", "B", "C", "D", "E", "F", "G" >>

SectorBodies ==
    { [t |-> "invalid"], [t |-> "object"], [t |-> "object", startups |-> EnergyStartups] }

\* what a fetch can come back with: it throws, or it yields a response
fetchOutcomes(bodies) ==
    { [t |-> "throws"], [t |-> "response", ok |-> FALSE] }
        \cup { [t |-> "response", ok |-> TRUE, body |-> b] : b \in bodies }

\* values of Math.random() drawn for the zoom target, as k/RandomRange
ZoomDraws == { RandomRange \div 2 }

\* no node was clicked yet; the page is shown at "/"
ClickInitial ==
    /\ lastNodeClick = << >>
    /\ location = "/"

\* the React state of HomePage after useState(...)
HomeInitial ==
    /\ searchQuery = ""
    /\ showResults = FALSE
    /\ isLoading = FALSE
    /\ knowledgeGraph = null
    /\ csvStartups = << >>
    /\ zoomTarget = null
    /\ showSectorDropdown = FALSE
    /\ inflight = << >>
    /\ console = ""
    /\ backPressed = FALSE

----------------------------------------------------------------------------
(* The run of generateBrainNetwork started by the effect of BrainVisualization *)

InitGen ==
    /\ \E size \in Sizes : width = size[1] * Unit /\ height = size[2] * Unit
    /\ showLabels \in BOOLEAN
    /\ closureShowLabels = showLabels
    /\ propChanges = 0
    /\ \E seed \in Seeds : rng = SeedOf(seed)
    /\ pc = "central"
    /\ i = 0
    /\ newNodes = << >>
    /\ newConnections = << >>
    /\ nodes = << >>
    /\ connections = << >>
    /\ HomeInitial
    /\ \E size \in WindowSizes : windowWidth = size[1] /\ windowHeight = size[2]
    /\ searchParam = ""
    /\ REACT_APP_API_URL = ""
    /\ mounted = FALSE
    /\ interactive = TRUE
    /\ ClickInitial

\* one iteration of centralNodes.forEach
PlaceCentralNode ==
    /\ pc = "central"
    /\ LET placed == centralNode(width, height, closureShowLabels, i, rng)
           last == i + 1 >= Len(centralNodes(closureShowLabels))
       IN  /\ newNodes' = Append(newNodes, placed.node)
           /\ rng' = placed.rng
           /\ i' = i + 1
           /\ pc' = IF ~last THEN "central"
                    ELSE IF i + 1 < nodeCount(width, height) THEN "nodes" ELSE "connect0"
    /\ UNCHANGED <<width, height, showLabels, closureShowLabels, propChanges,
                   newConnections, nodes, connections>>
    /\ UNCHANGED homeVars
    /\ UNCHANGED clickVars

\* one iteration of the loop that places the other nodes
PlaceNode ==
    /\ pc = "nodes"
    /\ LET placed == otherNode(width, height, i, rng)
       IN  /\ newNodes' = Append(newNodes, placed.node)
           /\ rng' = placed.rng
           /\ i' = i + 1
           /\ pc' = IF i + 1 < nodeCount(width, height) THEN "nodes" ELSE "connect0"
    /\ UNCHANGED <<width, height, showLabels, closureShowLabels, propChanges,
                   newConnections, nodes, connections>>
    /\ UNCHANGED homeVars
    /\ UNCHANGED clickVars

\* newNodes.forEach((node, i) => ...) of the connection pass starts at index 0
StartConnections ==
    /\ pc = "connect0"
    /\ pc' = "connect"
    /\ i' = 0
    /\ UNCHANGED <<width, height, showLabels, closureShowLabels, propChanges, newNodes,
                   newConnections, nodes,
                   connections, rng>>
    /\ UNCHANGED homeVars
    /\ UNCHANGED clickVars

\* an iteration of the connection pass without node.connections.push(...)
ConnectNodeWithoutList ==
    /\ pc = "connect"
    /\ i < Len(newNodes)
    /\ LET made == connectNode(width, height, newNodes, i, rng)
       IN  /\ newConnections' = newConnections \o made.connections
           /\ UNCHANGED newNodes
           /\ rng' = made.rng
    /\ i' = i + 1
    /\ UNCHANGED <<width, height, showLabels, closureShowLabels, propChanges, pc,
                   nodes, connections>>
    /\ UNCHANGED homeVars
    /\ UNCHANGED clickVars

\* one iteration of the connection pass
ConnectNode ==
    /\ pc = "connect"
    /\ i < Len(newNodes)
    /\ LET made == connectNode(width, height, newNodes, i, rng)
       IN  /\ newConnections' = newConnections \o made.connections
           /\ newNodes' = [newNodes EXCEPT ![i + 1].connections =
                              [k \in 1..Len(made.connections) |-> made.connections[k].target]]
           /\ rng' = made.rng
    /\ i' = i + 1
    /\ UNCHANGED <<width, height, showLabels, closureShowLabels, propChanges, pc,
                   nodes, connections>>
    /\ UNCHANGED homeVars
    /\ UNCHANGED clickVars

\* setNodes(newNodes); setConnections(newConnections)
SetLayout ==
    /\ pc = "connect"
    /\ i >= Len(newNodes)
    /\ nodes' = newNodes
    /\ connections' = newConnections
    /\ pc' = "done"
    /\ UNCHANGED <<width, height, showLabels, closureShowLabels, propChanges, i,
                   newNodes, newConnections, rng>>
    /\ UNCHANGED homeVars
    /\ UNCHANGED clickVars

\* canvas sizes a later render passes, <<width, height>> in pixels
ResizedSizes == { <<400, 300>>, <<800, 600>> }

\* A render of BrainVisualization with changed props, and its effects.  The memoised
\* generateBrainNetwork is created anew, and the effect that calls it runs again,
\* only when width or height changed (their dependency lists hold no showLabels).
ChangeProps ==
    /\ pc = "done"
    /\ propChanges < MaxPropChanges
    /\ propChanges' = propChanges + 1
    /\ \E w \in {width} \cup { size[1] * Unit : size \in ResizedSizes },
          h \in {height} \cup { size[2] * Unit : size \in ResizedSizes },
          flag \in BOOLEAN :
          /\ (w = width /\ h = height) \/ <<w \div Unit, h \div Unit>> \in ResizedSizes
          /\ <<w, h, flag>> # <<width, height, showLabels>>
          /\ width' = w /\ height' = h /\ showLabels' = flag
          /\ IF w # width \/ h # height
             THEN /\ closureShowLabels' = flag
                  /\ pc' = "central"
                  /\ i' = 0
                  /\ newNodes' = << >>
                  /\ newConnections' = << >>
             ELSE UNCHANGED <<closureShowLabels, pc, i, newNodes, newConnections>>
    /\ UNCHANGED <<nodes, connections, rng>>
    /\ UNCHANGED homeVars
    /\ UNCHANGED clickVars

NextGen ==
    \/ PlaceCentralNode
    \/ PlaceNode
    \/ StartConnections
    \/ ConnectNode
    \/ SetLayout

NextProps ==
    \/ PlaceCentralNode
    \/ PlaceNode
    \/ StartConnections
    \/ ConnectNode
    \/ SetLayout
    \/ ChangeProps

----------------------------------------------------------------------------
(* HomePage: searchWithOllama and the handlers *)

remove(seq, k) == SubSeq(seq, 1, k - 1) \o SubSeq(seq, k + 1, Len(seq))

\* the addresses of the two fetch calls
searchUrl == "http://localhost:8001/api/search"
sectorUrl == "http://localhost:8001/api/startups/sector/Energy"

\* a request handed to fetch
request(method, url) == [method |-> method, url |-> url]

\* searchWithOllama(query) up to "await fetch(...)": the call reads searchQuery from
\* the render it was created in; data is its local "data", once it is read; sent are
\* the requests the call has handed to fetch so far
searchCall(query, renderedQuery) ==
    [query |-> query, searchQuery |-> renderedQuery, stage |-> "search",
     data |-> undefined, sent |-> << request("POST", searchUrl) >>]

\* searchQuery.toLowerCase().includes('energy') || ...includes('energia')
wantsEnergy(query) ==
    includes(toLowerCase(query), "energy") \/ includes(toLowerCase(query), "energia")

\* setKnowledgeGraph with the whole body
storedGraphWholeBody(data) == data

\* the argument of setKnowledgeGraph
storedGraph(data) == property(data, "knowledge_graph")

\* { x: Math.random() * width * 0.3 + width * 0.2, y: ... }
zoomTargetAt(rx, ry) ==
    [t |-> "object",
     x |-> (rx * windowWidth * 3) \div (10 * RandomRange) + (windowWidth * 2) \div 10,
     y |-> (ry * windowHeight * 3) \div (10 * RandomRange) + (windowHeight * 2) \div 10]

\* sector.replace(/[^\w\s&]/g, '').trim(), then `${cleanSector} startups 2024`
sectorQuery(sector) == trim(removeSymbols(sector)) \o " startups 2024"

\* the first effects of HomePage: "Handle direct search from URL params"
Mount ==
    /\ ~mounted
    /\ mounted' = TRUE
    /\ IF searchParam # ""
       THEN /\ searchQuery' = searchParam
            /\ isLoading' = TRUE
            /\ inflight' = Append(inflight, searchCall(searchParam, searchQuery))
       ELSE UNCHANGED <<searchQuery, isLoading, inflight>>
    /\ backPressed' = (backPressed /\ searchParam = "")
    /\ UNCHANGED <<REACT_APP_API_URL, searchParam, windowWidth, windowHeight, showResults,
                   knowledgeGraph, csvStartups, zoomTarget, showSectorDropdown, console>>
    /\ UNCHANGED genVars
    /\ UNCHANGED clickVars

\* onChange={(e) => setSearchQuery(e.target.value)}; the input is disabled while loading
ChangeQuery ==
    /\ pageMounted
    /\ ~isLoading
    /\ \E text \in TypedQueries : searchQuery' = text
    /\ UNCHANGED <<mounted, REACT_APP_API_URL, searchParam, windowWidth, windowHeight,
                   showResults, isLoading,
                   knowledgeGraph, csvStartups, zoomTarget, showSectorDropdown, inflight,
                   console>>
    /\ UNCHANGED backPressed
    /\ UNCHANGED genVars
    /\ UNCHANGED clickVars

\* a handleSearch that submits every text that is not empty
handleSearchUntrimmed ==
    /\ pageMounted
    /\ ~isLoading
    /\ Len(inflight) < MaxInflight
    /\ IF searchQuery # ""
       THEN /\ isLoading' = TRUE
            /\ inflight' = Append(inflight, searchCall(searchQuery, searchQuery))
       ELSE UNCHANGED <<isLoading, inflight>>
    /\ showSectorDropdown' = FALSE
    /\ UNCHANGED <<mounted, REACT_APP_API_URL, searchParam, windowWidth, windowHeight,
                   searchQuery, showResults,
                   knowledgeGraph, csvStartups, zoomTarget, console>>
    /\ backPressed' = (backPressed /\ searchQuery = "")
    /\ UNCHANGED genVars
    /\ UNCHANGED clickVars

\* handleSearch; the input and the button are disabled while loading.  The submit
\* click also reaches handleClickOutside.
handleSearch ==
    /\ pageMounted
    /\ ~isLoading
    /\ Len(inflight) < MaxInflight
    /\ IF trim(searchQuery) # ""
       THEN /\ isLoading' = TRUE
            /\ inflight' = Append(inflight, searchCall(searchQuery, searchQuery))
       ELSE UNCHANGED <<isLoading, inflight>>
    /\ showSectorDropdown' = FALSE
    /\ UNCHANGED <<mounted, REACT_APP_API_URL, searchParam, windowWidth, windowHeight,
                   searchQuery, showResults,
                   knowledgeGraph, csvStartups, zoomTarget, console>>
    /\ backPressed' = (backPressed /\ trim(searchQuery) = "")
    /\ UNCHANGED genVars
    /\ UNCHANGED clickVars

\* a handleBack that leaves the startups of the sector lookup in place
handleBackKeepingStartups ==
    /\ pageMounted
    /\ panelShown
    /\ showResults' = FALSE
    /\ knowledgeGraph' = null
    /\ UNCHANGED csvStartups
    /\ zoomTarget' = null
    /\ searchQuery' = ""
    /\ showSectorDropdown' = FALSE
    /\ UNCHANGED <<mounted, REACT_APP_API_URL, searchParam, windowWidth, windowHeight,
                   isLoading, inflight,
                   console>>
    /\ backPressed' = TRUE
    /\ UNCHANGED genVars
    /\ UNCHANGED clickVars

\* handleBack, of the button in the header of the results panel.  The click also
\* reaches handleClickOutside.
handleBack ==
    /\ pageMounted
    /\ panelShown
    /\ showResults' = FALSE
    /\ knowledgeGraph' = null
    /\ csvStartups' = << >>
    /\ zoomTarget' = null
    /\ searchQuery' = ""
    /\ showSectorDropdown' = FALSE
    /\ UNCHANGED <<mounted, REACT_APP_API_URL, searchParam, windowWidth, windowHeight,
                   isLoading, inflight,
                   console>>
    /\ backPressed' = TRUE
    /\ UNCHANGED genVars
    /\ UNCHANGED clickVars

\* handleSectorSelect, of a button of the open dropdown
handleSectorSelect ==
    /\ pageMounted
    /\ showSectorDropdown
    /\ Len(inflight) < MaxInflight
    /\ \E k \in 1..Len(exampleSectors) :
          /\ searchQuery' = sectorQuery(exampleSectors[k])
          /\ inflight' = Append(inflight,
                                searchCall(sectorQuery(exampleSectors[k]), searchQuery))
    /\ isLoading' = TRUE
    /\ showSectorDropdown' = FALSE
    /\ UNCHANGED <<mounted, REACT_APP_API_URL, searchParam, windowWidth, windowHeight,
                   showResults,
                   knowledgeGraph, csvStartups, zoomTarget, console>>
    /\ backPressed' = FALSE
    /\ UNCHANGED genVars
    /\ UNCHANGED clickVars

\* action: () => setShowSectorDropdown(!showSectorDropdown)
toggleSectorDropdown ==
    /\ pageMounted
    /\ showSectorDropdown' = ~showSectorDropdown
    /\ UNCHANGED <<mounted, REACT_APP_API_URL, searchParam, windowWidth, windowHeight,
                   searchQuery, showResults,
                   isLoading, knowledgeGraph, csvStartups, zoomTarget, inflight, console>>
    /\ UNCHANGED backPressed
    /\ UNCHANGED genVars
    /\ UNCHANGED clickVars

\* handleClickOutside, registered while the dropdown is open
handleClickOutside ==
    /\ pageMounted
    /\ showSectorDropdown
    /\ showSectorDropdown' = FALSE
    /\ UNCHANGED <<mounted, REACT_APP_API_URL, searchParam, windowWidth, windowHeight,
                   searchQuery, showResults,
                   isLoading, knowledgeGraph, csvStartups, zoomTarget, inflight, console>>
    /\ UNCHANGED backPressed
    /\ UNCHANGED genVars
    /\ UNCHANGED clickVars

\* the search fetch threw or response.json() threw: the outer catch
searchRaises(outcome) ==
    \/ outcome.t = "throws"
    \/ outcome.t = "response" /\ outcome.ok /\ outcome.body.t = "invalid"

\* a failed call that also puts the view back to its first state
searchFailedResetting(k, message) ==
    /\ console' = message
    /\ isLoading' = FALSE
    /\ inflight' = remove(inflight, k)
    /\ showResults' = FALSE
    /\ knowledgeGraph' = null
    /\ csvStartups' = << >>
    /\ zoomTarget' = null
    /\ UNCHANGED searchQuery

\* a failed call that sends its POST a second time
searchFailedRetryingOnce(k, message) ==
    /\ console' = message
    /\ IF Len(inflight[k].sent) < 2
       THEN /\ inflight' = [inflight EXCEPT
                               ![k].sent = Append(@, request("POST", searchUrl))]
            /\ UNCHANGED isLoading
       ELSE /\ inflight' = remove(inflight, k)
            /\ isLoading' = FALSE
    /\ UNCHANGED <<searchQuery, showResults, knowledgeGraph, csvStartups, zoomTarget>>

\* the end of a failed call k: console.error(message), then "finally"
searchFailed(k, message) ==
    /\ console' = message
    /\ isLoading' = FALSE
    /\ inflight' = remove(inflight, k)
    /\ UNCHANGED <<searchQuery, showResults, knowledgeGraph, csvStartups, zoomTarget>>

\* the end of a successful call k: setZoomTarget, setShowResults(true), then "finally"
showSearchResults(k) ==
    /\ \E rx, ry \in ZoomDraws : zoomTarget' = zoomTargetAt(rx, ry)
    /\ showResults' = TRUE
    /\ isLoading' = FALSE
    /\ inflight' = remove(inflight, k)

\* searchWithOllama of call k from the return of "await fetch(.../api/search)", which
\* came back with outcome, to the next await or to its end
receiveSearchResponse(k, outcome) ==
    /\ pageMounted
    /\ inflight[k].stage = "search"
    /\ IF searchRaises(outcome)
       THEN searchFailed(k, "Error searching:")
       ELSE IF ~outcome.ok
       THEN searchFailed(k, "Search failed")
       ELSE /\ knowledgeGraph' = storedGraph(outcome.body)
            /\ IF wantsEnergy(inflight[k].searchQuery)
               THEN /\ inflight' = [inflight EXCEPT
                                       ![k].stage = "csv",
                                       ![k].data = outcome.body,
                                       ![k].sent = Append(@, request("GET", sectorUrl))]
                    /\ UNCHANGED <<csvStartups, zoomTarget, showResults, isLoading>>
               ELSE /\ csvStartups' = << >>
                    /\ showSearchResults(k)
            /\ UNCHANGED <<searchQuery, console>>
    /\ UNCHANGED <<mounted, REACT_APP_API_URL, searchParam, windowWidth, windowHeight,
                   showSectorDropdown>>
    /\ UNCHANGED backPressed
    /\ UNCHANGED genVars
    /\ UNCHANGED clickVars

\* a sector lookup whose failure empties csvStartups
receiveSectorResponseClearing(k, outcome) ==
    /\ pageMounted
    /\ inflight[k].stage = "csv"
    /\ IF outcome.t = "throws" \/ (outcome.ok /\ outcome.body.t = "invalid")
       THEN /\ console' = "CSV search not available"
            /\ csvStartups' = << >>
       ELSE IF ~outcome.ok
       THEN /\ csvStartups' = << >>
            /\ UNCHANGED console
       ELSE /\ csvStartups' = IF "startups" \in DOMAIN outcome.body
                              THEN outcome.body.startups ELSE << >>
            /\ UNCHANGED console
    /\ showSearchResults(k)
    /\ UNCHANGED <<mounted, REACT_APP_API_URL, searchParam, windowWidth, windowHeight,
                   searchQuery, knowledgeGraph, showSectorDropdown>>
    /\ UNCHANGED backPressed
    /\ UNCHANGED genVars
    /\ UNCHANGED clickVars

\* searchWithOllama of call k from the return of
\* "await fetch(.../api/startups/sector/Energy)", which came back with outcome, to its end
receiveSectorResponse(k, outcome) ==
    /\ pageMounted
    /\ inflight[k].stage = "csv"
    /\ IF outcome.t = "throws" \/ (outcome.ok /\ outcome.body.t = "invalid")
       THEN /\ console' = "CSV search not available"
            /\ UNCHANGED csvStartups
       ELSE IF ~outcome.ok
       THEN UNCHANGED <<console, csvStartups>>
       ELSE /\ csvStartups' = IF "startups" \in DOMAIN outcome.body
                              THEN outcome.body.startups ELSE << >>
            /\ UNCHANGED console
    /\ showSearchResults(k)
    /\ UNCHANGED <<mounted, REACT_APP_API_URL, searchParam, windowWidth, windowHeight,
                   searchQuery, knowledgeGraph, showSectorDropdown>>
    /\ UNCHANGED backPressed
    /\ UNCHANGED genVars
    /\ UNCHANGED clickVars

\* the fetch of /api/search of a call comes back, with one of bodies if it is OK
resumeSearchWith(bodies) ==
    \E k \in 1..Len(inflight) :
        \E outcome \in fetchOutcomes(bodies) : receiveSearchResponse(k, outcome)

\* the fetch of /api/search of a call comes back
resumeSearch == resumeSearchWith(SearchBodies)

\* the fetch of /api/startups/sector/Energy of a call comes back
resumeSectorLookup ==
    \E k \in 1..Len(inflight) :
        \E outcome \in fetchOutcomes(SectorBodies) : receiveSectorResponse(k, outcome)

InitHome ==
    /\ HomeInitial
    /\ mounted = FALSE
    /\ REACT_APP_API_URL \in ApiUrls
    /\ searchParam \in SearchParams
    /\ \E size \in WindowSizes : windowWidth = size[1] /\ windowHeight = size[2]
    /\ width = (windowWidth * 9 * Unit) \div 10
    /\ height = (windowHeight * 9 * Unit) \div 10
    /\ showLabels = FALSE
    /\ closureShowLabels = FALSE
    /\ propChanges = 0
    /\ pc = "idle"
    /\ i = 0
    /\ newNodes = << >>
    /\ newConnections = << >>
    /\ nodes = << >>
    /\ connections = << >>
    /\ rng = 0
    /\ interactive = TRUE
    /\ ClickInitial

\* the build without REACT_APP_API_URL, which HomePage never reads
InitLocal == InitHome /\ REACT_APP_API_URL = ""

NextHome ==
    \/ Mount
    \/ ChangeQuery
    \/ handleSearch
    \/ handleBack
    \/ handleSectorSelect
    \/ toggleSectorDropdown
    \/ handleClickOutside
    \/ resumeSearchWith(OverlapBodies)
    \/ resumeSectorLookup

\* no call of searchWithOllama is in flight
idle == inflight = << >>

\* the user does nothing between the start of a search and its end
NextScenario ==
    \/ Mount
    \/ idle /\ ChangeQuery
    \/ idle /\ handleSearch
    \/ idle /\ handleBack
    \/ idle /\ handleSectorSelect
    \/ idle /\ toggleSectorDropdown
    \/ idle /\ handleClickOutside
    \/ resumeSearch
    \/ resumeSectorLookup

----------------------------------------------------------------------------
(* Clicks on the rendered nodes *)

\* if (node.label): the label is present and not the empty string
labelIsTruthy(node) == "label" \in DOMAIN node /\ node.label # ""

\* a handler that navigates for every node
handleNodeClickAnyNode(node) ==
    location' = "/dashboard?focus=" \o node.id

\* HomePage.handleNodeClick: navigate(`/dashboard?focus=${node.id}`) if node.label
handleNodeClick(node) ==
    location' = IF labelIsTruthy(node)
                THEN "/dashboard?focus=" \o node.id
                ELSE location

\* a click on the circle drawn for nodes[k]: the render effect draws one circle per
\* node of the layout and registers .on('click', () => onNodeClick?.(node)) only if
\* interactive; HomePage passes handleNodeClick as onNodeClick
clickNode(k) ==
    /\ pc = "done"
    /\ location = "/"
    /\ k \in 1..Len(nodes)
    /\ IF interactive
       THEN /\ lastNodeClick' = << nodes[k] >>
            /\ handleNodeClick(nodes[k])
       ELSE UNCHANGED <<lastNodeClick, location>>
    /\ UNCHANGED interactive
    /\ UNCHANGED genVars
    /\ UNCHANGED homeVars

Click == \E k \in 1..Len(nodes) : clickNode(k)

\* BrainVisualization on the 800x600 canvas with either value of interactive
InitClick ==
    /\ width = 800 * Unit
    /\ height = 600 * Unit
    /\ showLabels \in BOOLEAN
    /\ closureShowLabels = showLabels
    /\ propChanges = 0
    /\ \E seed \in Seeds : rng = SeedOf(seed)
    /\ pc = "central"
    /\ i = 0
    /\ newNodes = << >>
    /\ newConnections = << >>
    /\ nodes = << >>
    /\ connections = << >>
    /\ HomeInitial
    /\ \E size \in WindowSizes : windowWidth = size[1] /\ windowHeight = size[2]
    /\ searchParam = ""
    /\ REACT_APP_API_URL = ""
    /\ mounted = FALSE
    /\ interactive \in BOOLEAN
    /\ ClickInitial

NextClick ==
    \/ PlaceCentralNode
    \/ PlaceNode
    \/ StartConnections
    \/ ConnectNode
    \/ SetLayout
    \/ Click

----------------------------------------------------------------------------
(* Specifications *)

\* one run of generateBrainNetwork
Spec == InitGen /\ [][NextGen]_vars

\* BrainVisualization rendered again with changed props
SpecProps == InitGen /\ [][NextProps]_vars

\* HomePage with overlapping searches and every interleaving of its handlers
SpecHome == InitLocal /\ [][NextHome]_vars

\* HomePage used one search at a time
SpecScenario == InitHome /\ [][NextScenario]_vars

\* one layout and a click on one of its nodes
SpecClick == InitClick /\ [][NextClick]_vars

----------------------------------------------------------------------------
(* Properties of the layout handed to the renderer *)

layoutDone == pc = "done"

nodeIds == { nodes[k].id : k \in 1..Len(nodes) }

nodeWithId(id) == nodes[CHOOSE k \in 1..Len(nodes) : nodes[k].id = id]

hasLabel(node) == "label" \in DOMAIN node

\* C1: a run of generateBrainNetwork produces exactly
\* clamp(floor(width*height/4000), 120, 180) nodes, hence between 120 and 180,
\* and exactly 120 for width = 800, height = 600.
C1_NodeCount ==
    layoutDone =>
        LET area == (width * height) \div (Unit * Unit)
            target == area \div 4000
            clamped == IF target < 120 THEN 120 ELSE IF target > 180 THEN 180 ELSE target
        IN  /\ Len(nodes) = clamped
            /\ Len(nodes) >= 120 /\ Len(nodes) <= 180
            /\ (width = 800 * Unit /\ height = 600 * Unit => Len(nodes) = 120)

C1_Witness ==
    layoutDone /\ width = 800 * Unit /\ height = 600 * Unit /\ Len(nodes) = 120

\* C2: in a produced layout the source and the target of every recorded edge are
\* identifiers of nodes of that layout.
C2_EdgeEndpointsExist ==
    layoutDone =>
        \A k \in 1..Len(connections) :
            connections[k].source \in nodeIds /\ connections[k].target \in nodeIds

\* an edge from a small node to a hub and an edge from a hub
C2_Witness ==
    /\ layoutDone
    /\ \E k \in 1..Len(connections) :
          /\ connections[k].source \in nodeIds /\ connections[k].target \in nodeIds
          /\ nodeWithId(connections[k].target).type = "main"
          /\ nodeWithId(connections[k].source).type # "main"

\* the ceiling of the claims: 0.4 * min(width, height) for a hub, 0.2 * min otherwise
ceilingOf(node) ==
    IF node.type = "main" THEN (4 * Min(width, height)) \div 10
                          ELSE (2 * Min(width, height)) \div 10

edgeDistance2(e) == distanceSquared(nodeWithId(e.source), nodeWithId(e.target))

\* C3: every recorded edge has strength max(0.2, 1 - distance/ceiling), which is
\* above 0 and at most 1.
C3_Strength ==
    layoutDone =>
        \A k \in 1..Len(connections) :
            LET e == connections[k]
                raw == Milli - (Sqrt(edgeDistance2(e)) * Milli) \div ceilingOf(nodeWithId(e.source))
            IN  /\ e.strength = (IF raw < 200 THEN 200 ELSE raw)
                /\ e.strength > 0
                /\ e.strength <= Milli

\* an edge whose strength is the floor 0.2 and one whose strength is above it
C3_Witness ==
    /\ layoutDone
    /\ \E k \in 1..Len(connections) :
          LET e == connections[k]
          IN  /\ e.strength = 200
              /\ Milli - (Sqrt(edgeDistance2(e)) * Milli) \div ceilingOf(nodeWithId(e.source)) < 200
    /\ \E k \in 1..Len(connections) : connections[k].strength > 200

\* C4: an edge is recorded only if the distance of its endpoints is strictly below
\* the ceiling of its source's category.
C4_BelowCeiling ==
    layoutDone =>
        \A k \in 1..Len(connections) :
            LET e == connections[k]
                ceiling == ceilingOf(nodeWithId(e.source))
            IN  edgeDistance2(e) < ceiling * ceiling

\* a node whose nearest neighbour is at or above its ceiling and that is the source
\* of no edge, in a layout that has edges
C4_Witness ==
    /\ layoutDone
    /\ connections # << >>
    /\ \E n \in 1..Len(nodes) :
          /\ \A m \in 1..Len(nodes) :
                m # n => distanceSquared(nodes[n], nodes[m])
                            >= ceilingOf(nodes[n]) * ceilingOf(nodes[n])
          /\ \A k \in 1..Len(connections) : connections[k].source # nodes[n].id

\* C5: a layout has exactly 5 hub nodes (type 'main'); exactly these carry a label;
\* their labels are the vocabulary selected by the flag, never a mixture.
C5_Hubs ==
    layoutDone =>
        LET hubs == { k \in 1..Len(nodes) : nodes[k].type = "main" }
            labels == { nodes[k].label : k \in hubs }
        IN  /\ Cardinality(hubs) = 5
            /\ \A k \in 1..Len(nodes) : hasLabel(nodes[k]) <=> k \in hubs
            /\ labels = IF showLabels
                        THEN {"Mobility", "Funding", "Electric Vehicles", "Startups", "Europe"}
                        ELSE {"Mobility", "Funding", "Startups", "Technology", "Europe"}

\* a layout generated with the flag set, with its five labelled hubs
C5_Witness ==
    /\ layoutDone
    /\ showLabels
    /\ Cardinality({ k \in 1..Len(nodes) : hasLabel(nodes[k]) }) = 5
    /\ \E k \in 1..Len(nodes) : hasLabel(nodes[k]) /\ nodes[k].label = "Electric Vehicles"

\* ((x - cx)/rx)^2 + ((y - cy)/ry)^2 of a node, in 1/Milli^2, for the ellipse centred
\* at (0.5*width, 0.3*height) with radii 0.32*width and 0.25*height
ellipseNorm2(node) ==
    LET nx == ((node.x - (5 * width) \div 10) * Milli) \div ((32 * width) \div 100)
        ny == ((node.y - (3 * height) \div 10) * Milli) \div ((25 * height) \div 100)
    IN  nx * nx + ny * ny

\* C6: every node of a layout, hubs included, lies inside the overall ellipse.
C6_InsideEllipse ==
    layoutDone =>
        \A k \in 1..Len(nodes) : ellipseNorm2(nodes[k]) <= Milli * Milli

\* a node that was moved onto the ellipse scaled by 0.95 (within the rounding of the
\* fixed point), and a hub
C6_Witness ==
    /\ layoutDone
    /\ \E k \in 1..Len(nodes) :
          /\ nodes[k].type # "main"
          /\ ellipseNorm2(nodes[k]) >= 940 * 940
          /\ ellipseNorm2(nodes[k]) <= 960 * 960
    /\ \E k \in 1..Len(nodes) : nodes[k].type = "main"

\* C7: no two nodes of a layout share an identifier.
C7_UniqueIds ==
    layoutDone =>
        \A a, b \in 1..Len(nodes) : a # b => nodes[a].id # nodes[b].id

\* a layout of the largest size, holding hub ids and 'node-<i>' ids
C7_Witness ==
    /\ layoutDone
    /\ Len(nodes) = MaxNodeCount
    /\ "mobility" \in nodeIds
    /\ nodeId(MaxNodeCount - 1) \in nodeIds

----------------------------------------------------------------------------
(* Properties of the search flow of HomePage *)

okResponse(body) == [t |-> "response", ok |-> TRUE, body |-> body]

\* a knowledge_graph {summary, nodes, insights} of the documented shape
wellFormedGraph(kg) ==
    /\ kg.t = "object"
    /\ {"summary", "nodes", "insights"} \subseteq DOMAIN kg
    /\ kg.summary.t = "string"
    /\ kg.nodes.t = "array"
    /\ \A n \in 1..Len(kg.nodes.items) :
          /\ kg.nodes.items[n].t = "object"
          /\ {"id", "label"} \subseteq DOMAIN kg.nodes.items[n]
          /\ kg.nodes.items[n].label.t = "string"
    /\ kg.insights.t = "array"
    /\ \A n \in 1..Len(kg.insights.items) : kg.insights.items[n].t = "string"

\* a text without markdown stars, newlines or blanks at its ends
plainText(s) ==
    /\ s # ""
    /\ ~includes(s, "*") /\ ~includes(s, "\n")
    /\ ~isSpace(charAt(s, 1)) /\ ~isSpace(charAt(s, Len(s)))

\* the results panel of the state after a step
panelNext == renderPanel(searchQuery', showResults', knowledgeGraph', csvStartups')

\* the 'results shown' state for the returned graph kg, as the state after a step
resultsShownNext(kg) ==
    /\ isLoading' = FALSE
    /\ showResults' = TRUE
    /\ knowledgeGraph' = kg
    /\ panelNext.t = "panel"
    /\ plainText(kg.summary.s) => panelNext.summary = kg.summary.s
    /\ Len(panelNext.concepts) = Len(kg.nodes.items)
    /\ \A n \in 1..Len(kg.nodes.items) :
          plainText(kg.nodes.items[n].label.s)
              => panelNext.concepts[n] = kg.nodes.items[n].label.s
    /\ Len(panelNext.insights) = Len(kg.insights.items)
    /\ \A n \in 1..Len(kg.insights.items) :
          plainText(kg.insights.items[n].s) => panelNext.insights[n] = kg.insights.items[n].s

\* C8: when a search receives a successful response carrying a knowledge_graph
\* {summary, nodes, insights}, the call ends with isLoading false, showResults true,
\* knowledgeGraph the returned object, and the panel showing the summary, one concept
\* per returned node and one entry per returned insight.
C8_ResultsShown ==
    [][\A k \in 1..Len(inflight) :
          /\ \A body \in SearchBodies :
                ( /\ wellFormedGraph(property(body, "knowledge_graph"))
                  /\ receiveSearchResponse(k, okResponse(body))
                  /\ Len(inflight') < Len(inflight) )
                    => resultsShownNext(property(body, "knowledge_graph"))
          /\ \A outcome \in fetchOutcomes(SectorBodies) :
                ( /\ wellFormedGraph(property(inflight[k].data, "knowledge_graph"))
                  /\ receiveSectorResponse(k, outcome) )
                    => resultsShownNext(property(inflight[k].data, "knowledge_graph"))
      ]_vars

\* the end-to-end scenario: summary "x", one concept "a", one insight "b"
C8_Witness ==
    /\ idle
    /\ ~isLoading
    /\ showResults
    /\ knowledgeGraph = ScenarioGraph
    /\ panel.t = "panel"
    /\ panel.summary = "x"
    /\ panel.concepts = << "a" >>
    /\ panel.insights = << "b" >>

\* the outcomes of a failed search request: fetch throws, or the status is not OK
failedOutcomes == { [t |-> "throws"], [t |-> "response", ok |-> FALSE] }

resultState == <<showResults, knowledgeGraph, csvStartups, zoomTarget>>

\* C9: when the search request fails, isLoading returns to false, and showResults,
\* knowledgeGraph, csvStartups and zoomTarget are left as they were: neither the
\* submission of a search nor the failure of its request changes them, so a hidden
\* panel remains hidden and a shown result view remains as it was.
C9_FailureKeepsView ==
    [][/\ Len(inflight') > Len(inflight) => UNCHANGED resultState
       /\ \A k \in 1..Len(inflight) :
             \A outcome \in failedOutcomes :
                receiveSearchResponse(k, outcome)
                    => /\ isLoading' = FALSE
                       /\ UNCHANGED resultState
                       /\ panelNext = panel
      ]_vars

\* a failed request from the initial view: not loading, no panel
C9_Witness ==
    /\ idle
    /\ console = "Search failed"
    /\ ~isLoading
    /\ ~showResults
    /\ knowledgeGraph = null
    /\ panel.t = "hidden"

\* every field of the graph that is present has its documented type: the only
\* defects are omissions (of knowledge_graph's fields, or of a node's label)
onlyOmissions(kg) ==
    /\ kg.t = "object"
    /\ "summary" \in DOMAIN kg => kg.summary.t = "string"
    /\ "nodes" \in DOMAIN kg =>
          /\ kg.nodes.t = "array"
          /\ \A n \in 1..Len(kg.nodes.items) :
                /\ kg.nodes.items[n].t = "object"
                /\ "label" \in DOMAIN kg.nodes.items[n]
                      => kg.nodes.items[n].label.t = "string"
    /\ "insights" \in DOMAIN kg =>
          /\ kg.insights.t = "array"
          /\ \A n \in 1..Len(kg.insights.items) : kg.insights.items[n].t = "string"

\* C10: for every successful search response, whichever of the fields (summary,
\* nodes, insights, a node's label) are missing, the view renders without raising an
\* error: a missing summary is replaced by the default summary, missing nodes or
\* insights render nothing.
C10_RendersWithoutError ==
    (showResults /\ onlyOmissions(knowledgeGraph)) =>
        /\ ~renderRaises
        /\ panel.t = "panel"
        /\ "summary" \notin DOMAIN knowledgeGraph => panel.summary = DefaultSummary
        /\ "nodes" \notin DOMAIN knowledgeGraph => panel.concepts = << >>
        /\ "insights" \notin DOMAIN knowledgeGraph => panel.insights = << >>

----------------------------------------------------------------------------
(* Properties of the requests of HomePage *)

\* the address requests go to when REACT_APP_API_URL is not set
DefaultApiUrl == "http://localhost:8001"

\* the base URL of the deployment notes: the environment's value whenever it is set
baseUrl == IF REACT_APP_API_URL # "" THEN REACT_APP_API_URL ELSE DefaultApiUrl

\* C11: the search POST goes to <base URL>/api/search and the sector-lookup GET to
\* <base URL>/api/startups/sector/Energy, the base URL being REACT_APP_API_URL
\* whenever it is set and the default local address only when it is absent.
C11_RequestsUseBaseUrl ==
    \A k \in 1..Len(inflight) :
        \A n \in 1..Len(inflight[k].sent) :
            LET r == inflight[k].sent[n]
            IN  /\ r.method = "POST" => r.url = baseUrl \o "/api/search"
                /\ r.method = "GET" => r.url = baseUrl \o "/api/startups/sector/Energy"

\* the number of POST requests a call has handed to fetch
postsOf(call) ==
    Cardinality({ n \in 1..Len(call.sent) : call.sent[n].method = "POST" })

\* C12: each search submission sends at most one POST to /api/search: a step starts
\* at most one call, no call ever holds a second POST, and a call whose request
\* failed (exception or non-OK status) ends there, issuing nothing further.
C12_OnePostPerSubmission ==
    [][/\ Len(inflight') <= Len(inflight) + 1
       /\ \A k \in 1..Len(inflight') : postsOf(inflight'[k]) <= 1
       /\ \A k \in 1..Len(inflight) :
             \A outcome \in failedOutcomes :
                receiveSearchResponse(k, outcome) => inflight' = remove(inflight, k)
      ]_vars

\* one call has failed while another one, with its single POST, is still in progress
C12_Witness ==
    /\ console = "Error searching:"
    /\ Len(inflight) = 1
    /\ inflight[1].stage = "search"
    /\ postsOf(inflight[1]) = 1

----------------------------------------------------------------------------
(* Properties of BrainVisualization under changing props *)

\* the labels of the hubs of the displayed layout
hubLabels == { nodes[k].label : k \in { n \in 1..Len(nodes) : nodes[n].type = "main" } }

\* C13: after any sequence of prop changes (width, height, showLabels), once the
\* effects have run, the hub labels of the displayed layout are the vocabulary that
\* the current value of showLabels selects; in particular a flip of showLabels from
\* false to true without a size change switches the hubs to the extended vocabulary.
C13_LabelsFollowFlag ==
    layoutDone =>
        hubLabels = IF showLabels
                    THEN {"Mobility", "Funding", "Electric Vehicles", "Startups", "Europe"}
                    ELSE {"Mobility", "Funding", "Startups", "Technology", "Europe"}

----------------------------------------------------------------------------
(* Properties of HomePage under overlapping searches *)

\* C14: isLoading is true in every state in which at least one search started by
\* searchWithOllama has not yet completed, for every interleaving of the ways a
\* search can start with the completion of earlier searches.
C14_LoadingWhileInFlight == inflight # << >> => isLoading

\* C15: once every in-flight search has completed, the knowledgeGraph shown in the
\* results panel is the response to the most recently submitted query, the one the
\* panel header shows as searchQuery: a step that stores a response, shows the panel
\* and leaves no search in flight stores the response of a call made for that query.
C15_LatestQueryShown ==
    [][\A k \in 1..Len(inflight) :
          \A body \in OverlapBodies :
             ( /\ receiveSearchResponse(k, okResponse(body))
               /\ inflight' = << >>
               /\ panelNext.t = "panel" )
                => inflight[k].query = panelNext.header
      ]_vars

----------------------------------------------------------------------------
(* Properties of the sector lookup *)

\* q contains 'energy' or 'energia', case-insensitive
mentionsEnergy(q) ==
    \E word \in { "energy", "energia" } :
        \E n \in 1..Len(q) :
            /\ n + Len(word) - 1 <= Len(q)
            /\ \A m \in 1..Len(word) : lowerChar(charAt(q, n + m - 1)) = charAt(word, m)

\* C16: during a successful search for query q, GET /api/startups/sector/Energy is
\* issued if and only if q itself contains 'energy' or 'energia' (case-insensitive),
\* however the search was started; when q contains neither, csvStartups is set to
\* the empty list.
C16_LookupIffQueryMentionsEnergy ==
    [][\A k \in 1..Len(inflight) :
          \A body \in SearchBodies :
             ( body.t = "object" /\ receiveSearchResponse(k, okResponse(body)) )
                => LET q == inflight[k].query
                       issued == /\ Len(inflight') = Len(inflight)
                                 /\ request("GET", sectorUrl)
                                        \in { inflight'[k].sent[n] :
                                                n \in 1..Len(inflight'[k].sent) }
                   IN  /\ issued <=> mentionsEnergy(q)
                       /\ ~mentionsEnergy(q) => csvStartups' = << >>
      ]_vars

\* C17: if the main search succeeds but the sector lookup fails (it throws or returns
\* a non-OK status), the search still completes as a success: knowledgeGraph is the
\* response, showResults becomes true, isLoading becomes false, and csvStartups keeps
\* the value it had before the search (no step of the search changes it).
C17_LookupFailureStillSucceeds ==
    [][/\ Len(inflight') > Len(inflight) => UNCHANGED csvStartups
       /\ \A k \in 1..Len(inflight) :
             /\ \A body \in SearchBodies :
                   ( /\ receiveSearchResponse(k, okResponse(body))
                     /\ Len(inflight') = Len(inflight) )
                       => UNCHANGED csvStartups
             /\ \A outcome \in failedOutcomes :
                   receiveSectorResponse(k, outcome)
                       => /\ knowledgeGraph' = property(inflight[k].data, "knowledge_graph")
                          /\ showResults' = TRUE
                          /\ isLoading' = FALSE
                          /\ UNCHANGED csvStartups
      ]_vars

\* the startups of an earlier search are still there after a search whose lookup threw
C17_Witness ==
    /\ idle
    /\ showResults
    /\ ~isLoading
    /\ knowledgeGraph = ScenarioGraph
    /\ console = "CSV search not available"
    /\ csvStartups = EnergyStartups

----------------------------------------------------------------------------
(* Properties of the form and of the Back control *)

\* C18: submitting the search form while searchQuery is empty or consists only of
\* whitespace sends no request and leaves isLoading, showResults, knowledgeGraph,
\* csvStartups and zoomTarget unchanged.
C18_BlankSubmitDoesNothing ==
    [][( /\ handleSearch
         /\ \A n \in 1..Len(searchQuery) : isSpace(charAt(searchQuery, n)) )
          => UNCHANGED <<inflight, isLoading, showResults, knowledgeGraph, csvStartups,
                         zoomTarget>>
      ]_vars

\* a results view with a box of blanks, where the form can be submitted
C18_Witness ==
    /\ pageMounted
    /\ searchQuery = "  "
    /\ ~isLoading
    /\ idle
    /\ panel.t = "panel"
    /\ ~showSectorDropdown

\* C19: handleBack returns the search view to its initial state from any state:
\* afterwards showResults is false, knowledgeGraph is null, csvStartups is empty,
\* zoomTarget is null and searchQuery is the empty string.
C19_BackResetsView ==
    [][handleBack =>
          /\ showResults' = FALSE
          /\ knowledgeGraph' = null
          /\ csvStartups' = << >>
          /\ zoomTarget' = null
          /\ searchQuery' = ""
          /\ panelNext.t = "hidden"
      ]_vars

\* Back was pressed while a search was in progress
C19_Witness ==
    /\ backPressed
    /\ inflight # << >>
    /\ ~showResults
    /\ knowledgeGraph = null
    /\ csvStartups = << >>
    /\ zoomTarget = null
    /\ searchQuery = ""

\* C20: after handleBack has run, the results panel stays hidden (showResults false,
\* knowledgeGraph null) until a new search is submitted: the completion of a search
\* that was started before Back was pressed does not show results again.
C20_HiddenAfterBack ==
    backPressed => (~showResults /\ knowledgeGraph = null /\ panel.t = "hidden")

----------------------------------------------------------------------------
(* Properties of the results mode of HomePage *)

\* C21: in every reachable state in which showResults is true, knowledgeGraph is
\* non-null and the results panel with its Back control is rendered: no successful
\* response leaves the view in the dimmed 'results' mode without a panel.
C21_ResultsModeHasPanel ==
    showResults => (~isNullish(knowledgeGraph) /\ truthy(knowledgeGraph))

----------------------------------------------------------------------------
(* Properties of the connection pass *)

\* the edges whose source is the node
edgesFrom(node, edges) == SelectSeq(edges, LAMBDA e : e.source = node.id)

\* the number of other nodes of ns strictly nearer to ns[n] than ns[m]
nearerThan(ns, n, m) ==
    Cardinality({ k \in 1..Len(ns) :
                    /\ k # n
                    /\ distanceSquared(ns[n], ns[k]) < distanceSquared(ns[n], ns[m]) })

\* the position in ns of the node with the identifier
indexOfId(ns, id) == CHOOSE k \in 1..Len(ns) : ns[k].id = id

\* C22: for every node n with drawn target connection count c (6 to 14 for hubs, 3
\* to 8 for others), n is the source of at most c edges, and every one of them goes
\* to a distinct node among the K = 2*c other nodes nearest to n, recorded in
\* ascending distance order.  A step of the connection pass from index i to i + 1 is
\* the iteration for node i.
C22_EdgesToNearest ==
    [][(pc = "connect" /\ i < Len(newNodes) /\ i' = i + 1) =>
          LET n == i + 1
              node == newNodes[n]
              c == connectionCount(node, RandomValue(RandomStep(rng)))
              made == SubSeq(newConnections', Len(newConnections) + 1,
                             Len(newConnections'))
              to(e) == indexOfId(newNodes, made[e].target)
          IN  /\ node.type = "main" => (c >= 6 /\ c <= 14)
              /\ node.type # "main" => (c >= 3 /\ c <= 8)
              /\ Len(made) <= c
              /\ \A e \in 1..Len(made) :
                    /\ made[e].source = node.id
                    /\ to(e) # n
                    /\ nearerThan(newNodes, n, to(e)) < 2 * c
              /\ \A e1, e2 \in 1..Len(made) :
                    e1 < e2 =>
                       /\ to(e1) # to(e2)
                       /\ distanceSquared(node, newNodes[to(e1)])
                              <= distanceSquared(node, newNodes[to(e2)])
      ]_vars

\* a layout in which a hub is the source of at least six edges, a small node of at
\* least three, and some node of none
C22_Witness ==
    /\ layoutDone
    /\ \E k \in 1..Len(nodes) :
          nodes[k].type = "main" /\ Len(edgesFrom(nodes[k], connections)) >= 6
    /\ \E k \in 1..Len(nodes) :
          nodes[k].type # "main" /\ Len(edgesFrom(nodes[k], connections)) >= 3
    /\ \E k \in 1..Len(nodes) : Len(edgesFrom(nodes[k], connections)) = 0

\* the targets of a sequence of edges, in order
targetsOf(edges) == [e \in 1..Len(edges) |-> edges[e].target]

\* C23: in every generated layout each node's connections list equals, in order, the
\* targets of the edges whose source is that node; it never contains the node's own
\* identifier and never an identifier that has no matching edge.
C23_ConnectionsListMatchesEdges ==
    layoutDone =>
        \A k \in 1..Len(nodes) :
            /\ nodes[k].connections = targetsOf(edgesFrom(nodes[k], connections))
            /\ \A n \in 1..Len(nodes[k].connections) :
                  /\ nodes[k].connections[n] # nodes[k].id
                  /\ \E e \in 1..Len(connections) :
                        /\ connections[e].source = nodes[k].id
                        /\ connections[e].target = nodes[k].connections[n]

\* a layout with a node whose list holds several identifiers and one whose list is
\* empty
C23_Witness ==
    /\ layoutDone
    /\ \E k \in 1..Len(nodes) :
          /\ Len(nodes[k].connections) >= 2
          /\ nodes[k].connections = targetsOf(edgesFrom(nodes[k], connections))
    /\ \E k \in 1..Len(nodes) : nodes[k].connections = << >>

\* C24: a click on a rendered node calls onNodeClick with exactly that node, and
\* only when the visualization is interactive (otherwise nothing changes); in
\* HomePage the click navigates to /dashboard?focus=<node id> if and only if the
\* clicked node has a label, which is the case exactly for the hubs, and a click
\* on an unlabeled node changes neither the location nor the state of the page.
C24_ClickCallsHandlerAndHubsNavigate ==
    [][\A k \in 1..Len(nodes) :
          clickNode(k) =>
              LET node == nodes[k]
              IN  /\ interactive => lastNodeClick' = << node >>
                  /\ ~interactive => UNCHANGED <<lastNodeClick, location>>
                  /\ hasLabel(node) <=> node.type = "main"
                  /\ (location' = "/dashboard?focus=" \o node.id)
                         <=> (interactive /\ hasLabel(node))
                  /\ location' # location => interactive /\ hasLabel(node)
                  /\ ~hasLabel(node) => UNCHANGED <<location, homeVars, genVars>>]_vars

\* an interactive visualization whose hub "mobility" was clicked: the handler got
\* that node and the page is at its focus view
C24_Witness ==
    /\ interactive
    /\ layoutDone
    /\ lastNodeClick = << nodeWithId("mobility") >>
    /\ location = "/dashboard?focus=mobility"

====
